---------------------------- MODULE Spec2Model ----------------------------
(***************************************************************************)
(* A model of simple_eq.py: the three-band equaliser apply_eq, the Flask   *)
(* handlers /upload and /process around it, the shared temporary           *)
(* directory temp_dir, and the page's script (currentFilename,             *)
(* processedFilename, the Apply EQ and Download buttons).                  *)
(*                                                                         *)
(* Numbers.  The code computes in floating point; the model computes in    *)
(* exact integer arithmetic:                                               *)
(*   - an input sample s stands for the real value s / FullScale;          *)
(*   - scipy.signal.butter is library code.  The model keeps what the      *)
(*     program depends on: the check 0 < Wn < 1 (and Wn[0] < Wn[1] for a   *)
(*     band), the number of taps (N+1, 2N+1 for a band) and a linear       *)
(*     filter with the numerator of the digital Butterworth design         *)
(*     ((1+z^-1)^N, (1-z^-1)^N, (1-z^-2)^N).  The recursive part (the `a`  *)
(*     taps, irrational numbers) is left out, so each pass has the gain    *)
(*     PassGain = 2^N in its pass band where the library's has gain 1;     *)
(*   - 10 ** (gain / 20) is irrational for every gain the page can send    *)
(*     but 0.  The model takes the gains -12, 0 and 12 dB (the ends of the *)
(*     page's sliders) and the multipliers 1/4, 1 and 4                    *)
(*     (10^(12/20) = 3.98...), held as numerators over GainDen;            *)
(*   - a band or mixed sample m therefore stands for the real value        *)
(*     m / One, and a sample of the returned buffer is a fraction          *)
(*     <<num, den>>.                                                       *)
(***************************************************************************)
EXTENDS Integers, Sequences, FiniteSets, TLC

\* ---------------------------------------------------------------- bounds
\* longest input buffer
MaxLen == 29
\* integer value of an input sample of real value 1.0
FullScale == 2
\* /process requests in flight in ServerSpec's initial state
MaxRequests == 2
\* requests the page may have sent, ClientSpec
MaxSent == 3

\* ------------------------------------------------------ program constants
\* signal.butter(4, ...)
Order == 4
\* min(250, nyquist-1), max(250, 1)
LowCut == 250
\* min(4000, nyquist-1), max(4000, 1)
HighCut == 4000
\* max(250, 1), max(4000, 1)
MinCut == 1
\* 10 ** (gain / 20) doubles every 6.02 dB
DbPerOctave == 6
\* <input type="range" ... min="-12" max="12">
SliderMin == -12
SliderMax == 12

\* ---------------------------------------------------------------- helpers
Abs(x) == IF x < 0 THEN -x ELSE x

Min2(x, y) == IF x < y THEN x ELSE y

Max2(x, y) == IF x > y THEN x ELSE y

RECURSIVE Pow(_, _)
Pow(base, k) == IF k = 0 THEN 1 ELSE base * Pow(base, k - 1)

RECURSIVE Binomial(_, _)
Binomial(n, k) ==
    IF k = 0 \/ k = n THEN 1 ELSE Binomial(n - 1, k - 1) + Binomial(n - 1, k)

RECURSIVE SumTo(_, _)
\* f[1] + ... + f[n]
SumTo(f, n) == IF n = 0 THEN 0 ELSE f[n] + SumTo(f, n - 1)

RECURSIVE MaxTo(_, _)
\* max(f[1], ..., f[n]), n >= 1
MaxTo(f, n) == IF n = 1 THEN f[1] ELSE Max2(f[n], MaxTo(f, n - 1))

Reverse(s) == [i \in 1..Len(s) |-> s[Len(s) + 1 - i]]

\* ------------------------------------------------------ scipy.signal.butter
\* gain of one pass of a model filter in its pass band
PassGain == Pow(2, Order)

\* numerator taps of the order-N digital Butterworth filters
Taps(btype) ==
    CASE btype = "low"  -> [k \in 1..(Order + 1) |-> Binomial(Order, k - 1)]
      [] btype = "high" -> [k \in 1..(Order + 1) |->
                              IF k % 2 = 1 THEN Binomial(Order, k - 1)
                                           ELSE -Binomial(Order, k - 1)]
      [] btype = "band" -> [k \in 1..(2 * Order + 1) |->
                              IF k % 2 = 0 THEN 0
                              ELSE IF ((k - 1) \div 2) % 2 = 0
                                   THEN Binomial(Order, (k - 1) \div 2)
                                   ELSE -Binomial(Order, (k - 1) \div 2)]

\* A critical frequency Wn = c / nyquist is held as the pair <<2c, sr>>
\* (nyquist = sr / 2 need not be an integer).  butter raises ValueError
\* unless 0 < Wn < 1 for every critical frequency, and Wn[0] < Wn[1].
WnValid(wn) == 0 < wn[1] /\ wn[1] < wn[2]

ButterOk(wns) ==
    /\ \A i \in 1..Len(wns) : WnValid(wns[i])
    /\ Len(wns) = 2 => wns[1][1] < wns[2][1]

Butter(wns, btype) ==
    IF ButterOk(wns)
    THEN [ok |-> TRUE, b |-> Taps(btype), btype |-> btype]
    ELSE [ok |-> FALSE, b |-> <<>>, btype |-> btype]

\* ---------------------------------------------------- scipy.signal.filtfilt
\* three times the order of the filter, not its number of taps
PadLenOrder(filt) == 3 * (Len(filt.b) - 1)

\* padlen = 3 * max(len(a), len(b))
PadLen(filt) == 3 * Len(filt.b)

\* odd_ext(x, n): the signal reflected about its end points
OddExt(x, n) ==
    LET L == Len(x)
    IN  [i \in 1..(L + 2 * n) |->
           IF i <= n THEN 2 * x[1] - x[n + 2 - i]
           ELSE IF i <= n + L THEN x[i - n]
           ELSE 2 * x[L] - x[L - (i - n - L)]]

\* lfilter(b, a, x, zi = zi * x0): with no recursive part, the initial state
\* lfilter_zi(b, a) * x0 is the state of a filter whose past inputs were x0
Lfilter(b, x, x0) ==
    [i \in 1..Len(x) |->
       SumTo([k \in 1..Len(b) |->
                b[k] * (IF i - k + 1 >= 1 THEN x[i - k + 1] ELSE x0)],
             Len(b))]

\* y[edge:], the trailing padding kept
DropLeadingPadding(y, edge) == SubSeq(y, edge + 1, Len(y))

\* y[edge:-edge]
DropPadding(y, edge) == SubSeq(y, edge + 1, Len(y) - edge)

\* filtfilt(b, a, x): ValueError unless len(x) > padlen; else forward pass,
\* backward pass, padding dropped
FiltFilt(filt, x) ==
    LET edge == PadLen(filt)
    IN  IF Len(x) <= edge
        THEN [ok |-> FALSE, y |-> <<>>]
        ELSE LET ext == OddExt(x, edge)
                 fwd == Lfilter(filt.b, ext, ext[1])
                 rev == Reverse(fwd)
                 bwd == Lfilter(filt.b, rev, rev[1])
             IN  [ok |-> TRUE, y |-> DropPadding(Reverse(bwd), edge)]


\* ------------------------------------------------------------ apply_eq
\* denominator of the gain multipliers
GainDen == Pow(2, SliderMax \div DbPerOctave)

\* integer value of a band or mixed sample of real value 1.0
One == PassGain * PassGain * GainDen * FullScale

\* 10 ** (-gain / 20): the sign of the exponent lost
DbToLinearInverted(gain) == Pow(2, (SliderMax - gain) \div DbPerOctave)

\* 10 ** (gain / 20), as a numerator over GainDen
DbToLinear(gain) == Pow(2, (gain - SliderMin) \div DbPerOctave)

\* signal.butter(4, min(250, nyquist-1) / nyquist, btype='low')
DesignLow(sr) == Butter(<< <<Min2(2 * LowCut, sr - 2), sr>> >>, "low")

\* signal.butter(4, [max(250, 1)/nyquist, min(4000, nyquist-1)/nyquist], 'band')
DesignMid(sr) ==
    Butter(<< <<2 * Max2(LowCut, MinCut), sr>>,
              <<Min2(2 * HighCut, sr - 2), sr>> >>, "band")

\* signal.butter(4, max(4000, 1) / nyquist, btype='high')
DesignHigh(sr) == Butter(<< <<2 * Max2(HighCut, MinCut), sr>> >>, "high")

\* the three designs in the order of the code; the first that raises ends it
DesignFilters(sr) ==
    LET lo == DesignLow(sr)
        mi == DesignMid(sr)
        hi == DesignHigh(sr)
    IN  [ok |-> lo.ok /\ mi.ok /\ hi.ok,
         failed |-> IF ~lo.ok THEN "butter_low"
                    ELSE IF ~mi.ok THEN "butter_mid"
                    ELSE IF ~hi.ok THEN "butter_high" ELSE "",
         low |-> lo, mid |-> mi, high |-> hi]

\* signal.filtfilt(b, a, audio) * (10 ** (gain / 20))
BandStage(filt, audio, gain) ==
    LET f == FiltFilt(filt, audio)
    IN  IF f.ok
        THEN [ok |-> TRUE, y |-> [i \in 1..Len(f.y) |-> f.y[i] * DbToLinear(gain)]]
        ELSE [ok |-> FALSE, y |-> <<>>]

\* low_band + mid_band + high_band
Mix(low_band, mid_band, high_band) ==
    [i \in 1..Len(low_band) |-> low_band[i] + mid_band[i] + high_band[i]]

\* np.max(np.abs(processed)); raises ValueError on an empty buffer
MaxAbs(buf) == MaxTo([i \in 1..Len(buf) |-> Abs(buf[i])], Len(buf))

\* the peak taken without np.abs
NormalizeNoAbs(mixed) ==
    LET max_val == MaxTo(mixed, Len(mixed))
    IN  IF max_val > One
        THEN [i \in 1..Len(mixed) |-> <<mixed[i], max_val>>]
        ELSE [i \in 1..Len(mixed) |-> <<mixed[i], One>>]

\* the division without its guard
NormalizeAlways(mixed) ==
    [i \in 1..Len(mixed) |-> <<mixed[i], MaxAbs(mixed)>>]

\* if max_val > 1.0: processed = processed / max_val
Normalize(mixed) ==
    LET max_val == MaxAbs(mixed)
    IN  IF max_val > One
        THEN [i \in 1..Len(mixed) |-> <<mixed[i], max_val>>]
        ELSE [i \in 1..Len(mixed) |-> <<mixed[i], One>>]

\* lines 158-164: combine and normalize
Combine(low_band, mid_band, high_band) ==
    LET mixed == Mix(low_band, mid_band, high_band)
    IN  IF Len(mixed) = 0
        THEN [ok |-> FALSE, processed |-> <<>>]
        ELSE [ok |-> TRUE, processed |-> Normalize(mixed)]

\* apply_eq as a function of its arguments: the returned buffer, or the
\* exception and the call that raised it
apply_eq(audio, sr, low_gain, mid_gain, high_gain) ==
    LET d == DesignFilters(sr)
        lo == BandStage(d.low, audio, low_gain)
        mi == BandStage(d.mid, audio, mid_gain)
        hi == BandStage(d.high, audio, high_gain)
        c == Combine(lo.y, mi.y, hi.y)
        Raise(at) == [ok |-> FALSE, processed |-> <<>>, exc |-> "ValueError", at |-> at]
    IN  IF ~d.ok THEN Raise(d.failed)
        ELSE IF ~lo.ok THEN Raise("filtfilt_low")
        ELSE IF ~mi.ok THEN Raise("filtfilt_mid")
        ELSE IF ~hi.ok THEN Raise("filtfilt_high")
        ELSE IF ~c.ok THEN Raise("max")
        ELSE [ok |-> TRUE, processed |-> c.processed, exc |-> "", at |-> ""]


\* ------------------------------------------------------------ the inputs
\* file names, as sequences of characters
FnA == <<"a", ".", "w", "a", "v">>

FnB == <<"b", ".", "w", "a", "v">>

\* one period of each input signal
Motifs ==
    << <<0>>,
       <<2>>,
       <<2, -2>>,
       <<2, 0, -2, 0>>,
       <<-2, -1, 0, -1>>,
       <<1, 2, 2, 1, -1, -2, -2, -1>>,
       <<0, 0, 0, 0, 0, 0, 2>> >>

Signal(m, n) == [i \in 1..n |-> Motifs[m][((i - 1) % Len(Motifs[m])) + 1]]

\* the buffer lengths: the empty buffer, a short one, the lengths around the
\* padding of the two filter sizes, the longest
Lens ==
    {0, 5, MaxLen} \cup
    {n \in {3 * (Order + 1), 3 * (Order + 1) + 1,
             3 * (2 * Order + 1), 3 * (2 * Order + 1) + 1} : n <= MaxLen}

Audios == {Signal(m, n) : m \in 1..Len(Motifs), n \in Lens}

SampleRates == {400, 4000, 8000, 8002, 44100}

\* the JSON strings of the gains
GainStrings == {"-12", "0", "12"}

\* float(data['low_gain'])
Float(str) ==
    CASE str = "-12" -> SliderMin
      [] str = "0"   -> 0
      [] str = "12"  -> SliderMax

\* a file of temp_dir: an upload librosa can decode, one it cannot, or a
\* buffer written by /process (by: the request that wrote it)
AudioFile(samples, sr) == [kind |-> "audio", samples |-> samples, sr |-> sr, by |-> 0]

GarbageFile == [kind |-> "garbage", samples |-> <<>>, sr |-> 0, by |-> 0]

OutputFile(processed, sr, r) ==
    [kind |-> "output", samples |-> processed, sr |-> sr, by |-> r]

\* data['filename'].split('.')[0]
RECURSIVE Stem(_)
Stem(name) ==
    IF name = <<>> \/ Head(name) = "." THEN <<>>
    ELSE <<Head(name)>> \o Stem(Tail(name))

\* f"eq_{data['filename'].split('.')[0]}.wav"
OutputFilename(name) == <<"e", "q", "_">> \o Stem(name) \o <<".", "w", "a", "v">>

\* ------------------------------------------------------------- the state
VARIABLES
    temp_dir,           \* the files of tempfile.mkdtemp(), by name
    req,                \* the /process requests being handled: their locals
    currentFilename,    \* the page's script
    processedFilename,
    processBtn,         \* [disabled |-> BOOLEAN]
    downloadBtn,
    sliders,            \* the values of lowGain, midGain, highGain
    status,             \* the text of #status
    location,           \* window.location.href
    fetches             \* the page's fetch() calls and their outcomes

vars == <<temp_dir, req, currentFilename, processedFilename, processBtn,
          downloadBtn, sliders, status, location, fetches>>

pageVars == <<currentFilename, processedFilename, processBtn, downloadBtn,
              sliders, status, location, fetches>>

\* let currentFilename = null
Null == <<"null">>

\* the page as loaded
PageInit ==
    /\ currentFilename = Null
    /\ processedFilename = Null
    /\ processBtn = [disabled |-> TRUE]
    /\ downloadBtn = [disabled |-> TRUE]
    /\ sliders = [lowGain |-> "0", midGain |-> "0", highGain |-> "0"]
    /\ status = "Upload an audio file to start"
    /\ location = <<"/">>
    /\ fetches = <<>>

NoExc == [type |-> "", msg |-> "", at |-> ""]

\* a /process request as it enters the handler; ran lists the steps taken
NewRequest(data) ==
    [pc |-> "load", data |-> data, audio |-> <<>>, sr |-> 0,
     filters |-> <<>>, low_band |-> <<>>, mid_band |-> <<>>,
     high_band |-> <<>>, processed |-> <<>>, exc |-> NoExc,
     response |-> [pending |-> TRUE], ran |-> <<>>]

Datas(names, gains) ==
    [filename : names, low_gain : gains, mid_gain : gains, high_gain : gains]

\* one /process request for an uploaded file
Init ==
    /\ PageInit
    /\ \E samples \in Audios, sr \in SampleRates, garbage \in BOOLEAN :
          /\ garbage => (samples = <<>> /\ sr = 400)
          /\ temp_dir = [n \in {FnA} |->
                           IF garbage THEN GarbageFile ELSE AudioFile(samples, sr)]
    /\ \E data \in Datas({FnA}, GainStrings) : req = <<NewRequest(data)>>

\* ------------------------------------------------------------- /process
Raise(r, type, msg, at) ==
    req' = [req EXCEPT ![r] = [@ EXCEPT !.pc = "except",
                                        !.exc = [type |-> type, msg |-> msg, at |-> at],
                                        !.ran = Append(@, req[r].pc)]]

\* filepath = os.path.join(temp_dir, data['filename'])
\* audio, sr = librosa.load(filepath, sr=None)
ProcessLoad(r) ==
    /\ req[r].pc = "load"
    /\ LET name == req[r].data.filename
       IN  IF name \in DOMAIN temp_dir /\ temp_dir[name].kind = "audio"
           THEN req' = [req EXCEPT ![r] = [@ EXCEPT !.pc = "design",
                                                   !.audio = temp_dir[name].samples,
                                                   !.sr = temp_dir[name].sr,
                                                   !.ran = Append(@, "load")]]
           ELSE Raise(r, "LoadError", "cannot load", "load")
    /\ UNCHANGED <<temp_dir, pageVars>>

\* apply_eq, lines 146-151: nyquist and the three filter designs
ApplyEqDesign(r) ==
    /\ req[r].pc = "design"
    /\ LET d == DesignFilters(req[r].sr)
       IN  IF d.ok
           THEN req' = [req EXCEPT ![r] = [@ EXCEPT !.pc = "low",
                                                   !.filters = d,
                                                   !.ran = Append(@, "design")]]
           ELSE Raise(r, "ValueError", "Wn", d.failed)
    /\ UNCHANGED <<temp_dir, pageVars>>

\* line 154
ApplyEqLow(r) ==
    /\ req[r].pc = "low"
    /\ LET s == BandStage(req[r].filters.low, req[r].audio, Float(req[r].data.low_gain))
       IN  IF s.ok
           THEN req' = [req EXCEPT ![r] = [@ EXCEPT !.pc = "mid",
                                                   !.low_band = s.y,
                                                   !.ran = Append(@, "low")]]
           ELSE Raise(r, "ValueError", "padlen", "filtfilt_low")
    /\ UNCHANGED <<temp_dir, pageVars>>

\* line 155 with the exception swallowed: the band is left empty and the
\* pipeline goes on
ApplyEqMidBestEffort(r) ==
    /\ req[r].pc = "mid"
    /\ LET s == BandStage(req[r].filters.mid, req[r].audio, Float(req[r].data.mid_gain))
       IN  req' = [req EXCEPT ![r] = [@ EXCEPT !.pc = "high",
                                               !.mid_band = IF s.ok THEN s.y ELSE req[r].low_band,
                                               !.exc = IF s.ok THEN @
                                                       ELSE [type |-> "ValueError", msg |-> "padlen",
                                                             at |-> "filtfilt_mid"],
                                               !.ran = Append(@, "mid")]]
    /\ UNCHANGED <<temp_dir, pageVars>>

\* line 155
ApplyEqMid(r) ==
    /\ req[r].pc = "mid"
    /\ LET s == BandStage(req[r].filters.mid, req[r].audio, Float(req[r].data.mid_gain))
       IN  IF s.ok
           THEN req' = [req EXCEPT ![r] = [@ EXCEPT !.pc = "high",
                                                   !.mid_band = s.y,
                                                   !.ran = Append(@, "mid")]]
           ELSE Raise(r, "ValueError", "padlen", "filtfilt_mid")
    /\ UNCHANGED <<temp_dir, pageVars>>

\* line 156
ApplyEqHigh(r) ==
    /\ req[r].pc = "high"
    /\ LET s == BandStage(req[r].filters.high, req[r].audio, Float(req[r].data.high_gain))
       IN  IF s.ok
           THEN req' = [req EXCEPT ![r] = [@ EXCEPT !.pc = "combine",
                                                   !.high_band = s.y,
                                                   !.ran = Append(@, "high")]]
           ELSE Raise(r, "ValueError", "padlen", "filtfilt_high")
    /\ UNCHANGED <<temp_dir, pageVars>>

\* lines 158-164
ApplyEqCombine(r) ==
    /\ req[r].pc = "combine"
    /\ LET c == Combine(req[r].low_band, req[r].mid_band, req[r].high_band)
       IN  IF c.ok
           THEN req' = [req EXCEPT ![r] = [@ EXCEPT !.pc = "write",
                                                   !.processed = c.processed,
                                                   !.ran = Append(@, "combine")]]
           ELSE Raise(r, "ValueError", "zero-size array", "max")
    /\ UNCHANGED <<temp_dir, pageVars>>

\* lines 194-198: the output file is written, the response is the success
ProcessWrite(r) ==
    /\ req[r].pc = "write"
    /\ LET output_filename == OutputFilename(req[r].data.filename)
       IN  /\ temp_dir' = [n \in DOMAIN temp_dir \cup {output_filename} |->
                             IF n = output_filename
                             THEN OutputFile(req[r].processed, req[r].sr, r)
                             ELSE temp_dir[n]]
           /\ req' = [req EXCEPT ![r] = [@ EXCEPT !.pc = "done",
                                                  !.response = [success |-> TRUE,
                                                                processed_filename |-> output_filename],
                                                  !.ran = Append(@, "write")]]
    /\ UNCHANGED pageVars

\* lines 199-200: except Exception as e: return jsonify({'error': str(e)})
ProcessExcept(r) ==
    /\ req[r].pc = "except"
    /\ req' = [req EXCEPT ![r] = [@ EXCEPT !.pc = "done",
                                           !.response = [error |-> req[r].exc.msg]]]
    /\ UNCHANGED <<temp_dir, pageVars>>

Next ==
    \/ \E r \in DOMAIN req : ProcessLoad(r)
    \/ \E r \in DOMAIN req : ApplyEqDesign(r)
    \/ \E r \in DOMAIN req : ApplyEqLow(r)
    \/ \E r \in DOMAIN req : ApplyEqMid(r)
    \/ \E r \in DOMAIN req : ApplyEqHigh(r)
    \/ \E r \in DOMAIN req : ApplyEqCombine(r)
    \/ \E r \in DOMAIN req : ProcessWrite(r)
    \/ \E r \in DOMAIN req : ProcessExcept(r)

Spec == Init /\ [][Next]_vars


\* ------------------------------------------- concurrent /process requests
\* the uploads and the gains of the concurrent requests
ServerAudios == {Signal(5, 3 * (2 * Order + 1) + 1), Signal(4, 5)}

ServerDatas ==
    [filename : {FnA, FnB}, low_gain : {"0", "12"}, mid_gain : {"0"},
     high_gain : {"0"}]

\* MaxRequests /process requests in flight, a.wav uploaded, b.wav not
ServerInit ==
    /\ PageInit
    /\ \E samples \in ServerAudios :
          temp_dir = [n \in {FnA} |-> AudioFile(samples, 44100)]
    /\ req \in [1..MaxRequests -> {NewRequest(data) : data \in ServerDatas}]

ServerSpec == ServerInit /\ [][Next]_vars

\* ------------------------------------------------------- the page, /upload
\* the files the user can pick: a good one, one too short to filter, one
\* that is no audio and whose name is cleaned to a.wav, one whose name is
\* cleaned to nothing
FnSpaced == <<" ", "a", ".", "w", "a", "v">>

FnForeign == <<"~">>

UserFiles ==
    {[filename |-> FnA, content |-> AudioFile(Signal(5, MaxLen), 44100)],
     [filename |-> FnB, content |-> AudioFile(Signal(4, 5), 44100)],
     [filename |-> FnSpaced, content |-> GarbageFile],
     [filename |-> FnForeign, content |-> AudioFile(Signal(2, MaxLen), 44100)]}

\* secure_filename, on the characters of the model: characters outside
\* [A-Za-z0-9_.-] and white space are dropped ("~" stands for them), what is
\* left is joined by "_" between runs of white space, and leading and
\* trailing "." and "_" are stripped
RECURSIVE JoinWords(_, _)
JoinWords(name, started) ==
    IF name = <<>> THEN <<>>
    ELSE IF Head(name) = "~" THEN JoinWords(Tail(name), started)
    ELSE IF Head(name) = " "
         THEN IF started /\ \E i \in 1..Len(Tail(name)) : Tail(name)[i] \notin {" ", "~"}
              THEN <<"_">> \o JoinWords(Tail(name), FALSE)
              ELSE JoinWords(Tail(name), started)
    ELSE <<Head(name)>> \o JoinWords(Tail(name), TRUE)

RECURSIVE StripLeft(_)
StripLeft(name) ==
    IF name # <<>> /\ Head(name) \in {".", "_"} THEN StripLeft(Tail(name)) ELSE name

secure_filename(name) ==
    Reverse(StripLeft(Reverse(StripLeft(JoinWords(name, FALSE)))))

\* upload(): the file is saved under its cleaned name, then test-loaded
upload(file) ==
    LET filename == secure_filename(file.filename)
    IN  IF filename = <<>>
        THEN [dir |-> temp_dir, json |-> [error |-> "Is a directory"]]
        ELSE LET saved == [n \in DOMAIN temp_dir \cup {filename} |->
                             IF n = filename THEN file.content ELSE temp_dir[n]]
             IN  IF file.content.kind = "audio"
                 THEN [dir |-> saved, json |-> [success |-> TRUE, filename |-> filename]]
                 ELSE [dir |-> saved, json |-> [error |-> "cannot load"]]

\* process(), as one step: the file named by the request is loaded,
\* equalised and written as eq_<stem>.wav
process(data) ==
    IF data.filename \notin DOMAIN temp_dir \/ temp_dir[data.filename].kind # "audio"
    THEN [dir |-> temp_dir, json |-> [error |-> "cannot load"]]
    ELSE LET in == temp_dir[data.filename]
             res == apply_eq(in.samples, in.sr, Float(data.low_gain),
                             Float(data.mid_gain), Float(data.high_gain))
             output_filename == OutputFilename(data.filename)
         IN  IF ~res.ok
             THEN [dir |-> temp_dir, json |-> [error |-> res.at]]
             ELSE [dir |-> [n \in DOMAIN temp_dir \cup {output_filename} |->
                              IF n = output_filename
                              THEN OutputFile(res.processed, in.sr, 0)
                              ELSE temp_dir[n]],
                   json |-> [success |-> TRUE, processed_filename |-> output_filename]]

Fetch(url, body) == [url |-> url, body |-> body, state |-> "sent", result |-> [pending |-> TRUE]]

\* audioFile.onchange, to the await: lines 74-83
SelectFile(file) ==
    /\ Len(fetches) < MaxSent
    /\ status' = "Uploading..."
    /\ fetches' = Append(fetches, Fetch("/upload", file))
    /\ UNCHANGED <<temp_dir, req, currentFilename, processedFilename, processBtn,
                   downloadBtn, sliders, location>>

\* the server answers a request of the page; the request body is consumed
Serve(i) ==
    /\ fetches[i].state = "sent"
    /\ LET ans == IF fetches[i].url = "/upload" THEN upload(fetches[i].body)
                  ELSE process(fetches[i].body)
       IN  /\ temp_dir' = ans.dir
           /\ fetches' = [fetches EXCEPT ![i] = [@ EXCEPT !.state = "answered",
                                                          !.body = Null,
                                                          !.result = ans.json]]
    /\ UNCHANGED <<req, currentFilename, processedFilename, processBtn, downloadBtn,
                   sliders, status, location>>

\* fetch() rejects: the request or its answer is lost
FetchFails(i) ==
    /\ fetches[i].state \in {"sent", "answered"}
    /\ fetches' = [fetches EXCEPT ![i] = [@ EXCEPT !.state = "rejected",
                                                   !.body = Null,
                                                   !.result = [pending |-> TRUE]]]
    /\ UNCHANGED <<temp_dir, req, currentFilename, processedFilename, processBtn,
                   downloadBtn, sliders, status, location>>

Succeeded(f) == f.state = "answered" /\ "success" \in DOMAIN f.result

\* the upload answer enables Apply EQ whether it is a success or not
UploadAnsweredEnablesAlways(i) ==
    /\ fetches[i].url = "/upload"
    /\ fetches[i].state \in {"answered", "rejected"}
    /\ currentFilename' = IF Succeeded(fetches[i]) THEN fetches[i].result.filename
                          ELSE currentFilename
    /\ processBtn' = [disabled |-> FALSE]
    /\ status' = "File loaded! Adjust EQ and click Apply."
    /\ fetches' = [fetches EXCEPT ![i] = [@ EXCEPT !.state = "done"]]
    /\ UNCHANGED <<temp_dir, req, processedFilename, downloadBtn, sliders, location>>

\* audioFile.onchange, after the await: lines 84-96
UploadAnswered(i) ==
    /\ fetches[i].url = "/upload"
    /\ fetches[i].state \in {"answered", "rejected"}
    /\ IF Succeeded(fetches[i])
       THEN /\ currentFilename' = fetches[i].result.filename
            /\ processBtn' = [disabled |-> FALSE]
            /\ status' = "File loaded! Adjust EQ and click Apply."
       ELSE /\ status' = IF fetches[i].state = "rejected" THEN "Upload failed"
                         ELSE "Error"
            /\ UNCHANGED <<currentFilename, processBtn>>
    /\ fetches' = [fetches EXCEPT ![i] = [@ EXCEPT !.state = "done"]]
    /\ UNCHANGED <<temp_dir, req, processedFilename, downloadBtn, sliders, location>>

\* processBtn.onclick, to the await: lines 100-113
ClickApply ==
    /\ ~processBtn.disabled
    /\ Len(fetches) < MaxSent
    /\ status' = "Processing..."
    /\ fetches' = Append(fetches,
                         Fetch("/process", [filename |-> currentFilename,
                                            low_gain |-> sliders.lowGain,
                                            mid_gain |-> sliders.midGain,
                                            high_gain |-> sliders.highGain]))
    /\ UNCHANGED <<temp_dir, req, currentFilename, processedFilename, processBtn,
                   downloadBtn, sliders, location>>

\* processBtn.onclick, after the await: lines 115-125
ProcessAnswered(i) ==
    /\ fetches[i].url = "/process"
    /\ fetches[i].state \in {"answered", "rejected"}
    /\ IF Succeeded(fetches[i])
       THEN /\ processedFilename' = fetches[i].result.processed_filename
            /\ downloadBtn' = [disabled |-> FALSE]
            /\ status' = "EQ applied! Click Download."
       ELSE /\ status' = IF fetches[i].state = "rejected" THEN "Processing failed"
                         ELSE "Error"
            /\ UNCHANGED <<processedFilename, downloadBtn>>
    /\ fetches' = [fetches EXCEPT ![i] = [@ EXCEPT !.state = "done"]]
    /\ UNCHANGED <<temp_dir, req, currentFilename, processBtn, sliders, location>>

\* downloadBtn.onclick: lines 129-131
ClickDownload ==
    /\ ~downloadBtn.disabled
    /\ location' = IF processedFilename # Null
                   THEN <<"/", "download", "/">> \o processedFilename
                   ELSE location
    /\ UNCHANGED <<temp_dir, req, currentFilename, processedFilename, processBtn,
                   downloadBtn, sliders, status, fetches>>

\* resetBtn.onclick: lines 134-137
ClickReset ==
    /\ sliders' = [lowGain |-> "0", midGain |-> "0", highGain |-> "0"]
    /\ UNCHANGED <<temp_dir, req, currentFilename, processedFilename, processBtn,
                   downloadBtn, status, location, fetches>>

\* the positions the user drags a slider to
SliderStops == {"0", "12"}

\* the user drags a slider
MoveSlider(id, value) ==
    /\ sliders[id] # value
    /\ sliders' = [sliders EXCEPT ![id] = value]
    /\ UNCHANGED <<temp_dir, req, currentFilename, processedFilename, processBtn,
                   downloadBtn, status, location, fetches>>

\* the page as loaded, temp_dir empty
ClientInit ==
    /\ PageInit
    /\ temp_dir = <<>>
    /\ req = <<>>

ClientNext ==
    \/ \E file \in UserFiles : SelectFile(file)
    \/ \E i \in DOMAIN fetches : Serve(i)
    \/ \E i \in DOMAIN fetches : FetchFails(i)
    \/ \E i \in DOMAIN fetches : UploadAnswered(i)
    \/ ClickApply
    \/ \E i \in DOMAIN fetches : ProcessAnswered(i)
    \/ ClickDownload
    \/ ClickReset
    \/ \E id \in {"lowGain", "midGain", "highGain"}, value \in SliderStops :
          MoveSlider(id, value)

ClientSpec == ClientInit /\ [][ClientNext]_vars

\* ===================================================== the claims, under Spec
\* the steps request r has entered; the last one is the one that raised
Ran(r, step) == \E i \in 1..Len(req[r].ran) : req[r].ran[i] = step

\* the steps request r has completed without an exception
Completed(r, step) ==
    \E i \in 1..Len(req[r].ran) :
        /\ req[r].ran[i] = step
        /\ req[r].exc.type = "" \/ i < Len(req[r].ran)

\* apply_eq has returned a buffer to the handler
Returned(r) == Completed(r, "combine")

\* the mixed buffer of request r, before normalisation
Mixed(r) == Mix(req[r].low_band, req[r].mid_band, req[r].high_band)

\* C1. Peak bound: whenever apply_eq returns a buffer, the absolute value of
\* every returned sample is at most 1.0.
C1_PeakBound ==
    \A r \in DOMAIN req :
        Returned(r) =>
            \A i \in 1..Len(req[r].processed) :
                /\ req[r].processed[i][2] > 0
                /\ Abs(req[r].processed[i][1]) <= req[r].processed[i][2]

\* a buffer was returned whose mixed peak exceeded 1.0 on a negative sample
C1_Witness ==
    \E r \in DOMAIN req :
        /\ Returned(r)
        /\ \E i \in 1..Len(req[r].audio) :
              /\ Mixed(r)[i] < -One
              /\ \A j \in 1..Len(req[r].audio) : Mixed(r)[j] <= One

\* C2. Length preservation: each band buffer, the mixed buffer, the returned
\* buffer and the samples written to the output file have the length of the
\* input buffer.
C2_LengthPreserved ==
    \A r \in DOMAIN req :
        /\ Completed(r, "low") => Len(req[r].low_band) = Len(req[r].audio)
        /\ Completed(r, "mid") => Len(req[r].mid_band) = Len(req[r].audio)
        /\ Completed(r, "high") => Len(req[r].high_band) = Len(req[r].audio)
        /\ Returned(r) =>
              /\ Len(Mixed(r)) = Len(req[r].audio)
              /\ Len(req[r].processed) = Len(req[r].audio)
        /\ Completed(r, "write") =>
              Len(temp_dir[OutputFilename(req[r].data.filename)].samples)
                  = Len(req[r].audio)

\* a request has returned a buffer longer than the widest padding
C2_Witness ==
    \E r \in DOMAIN req :
        /\ req[r].pc = "done"
        /\ Completed(r, "write")
        /\ Len(req[r].audio) > 3 * (2 * Order + 1)
        /\ Len(req[r].processed) = Len(req[r].audio)

\* C9. Normaliser rule: with peak the largest absolute value of the mixed
\* buffer, if peak > 1.0 every returned sample is the mixed sample times
\* 1/peak and the new peak is exactly 1.0; otherwise every returned sample
\* is the mixed sample.
C9_NormaliserRule ==
    \A r \in DOMAIN req :
        Returned(r) =>
            LET mixed == Mixed(r)
                peak == MaxAbs(mixed)
                out == req[r].processed
            IN  IF peak > One
                THEN /\ \A i \in 1..Len(out) :
                          /\ out[i][2] > 0
                          /\ out[i][1] * peak = mixed[i] * out[i][2]
                     /\ \E i \in 1..Len(out) : Abs(out[i][1]) = out[i][2]
                     /\ \A i \in 1..Len(out) : Abs(out[i][1]) <= out[i][2]
                ELSE \A i \in 1..Len(out) :
                          /\ out[i][2] > 0
                          /\ out[i][1] * One = mixed[i] * out[i][2]

\* both branches: a returned buffer that was scaled, one that was not
C9_Witness ==
    \E r \in DOMAIN req :
        /\ Returned(r)
        /\ MaxAbs(Mixed(r)) > One
        /\ \E i \in 1..Len(req[r].audio) :
              /\ Mixed(r)[i] # 0
              /\ Abs(Mixed(r)[i]) < MaxAbs(Mixed(r))

\* the other case of the rule: a returned buffer, not silent, whose mixed peak
\* did not exceed 1.0
C9_WitnessUnchanged ==
    \E r \in DOMAIN req :
        /\ Returned(r)
        /\ MaxAbs(Mixed(r)) <= One
        /\ MaxAbs(Mixed(r)) > 0


\* the widest padding of the three filters: that of the band filter
WidestPad == 3 * (2 * Order + 1)

\* C3. Clamping, as claimed: at sample_rate = 4000 the three filters are
\* designed and a buffer longer than the padding comes back with the length
\* of the input.  (The code does not clamp the high-pass cutoff: 4000 / 2000
\* is not below 1 and butter raises.)
C3_Clamped ==
    \A r \in DOMAIN req :
        (/\ req[r].pc = "done"
         /\ Completed(r, "load")
         /\ req[r].sr = 4000
         /\ Len(req[r].audio) > WidestPad)
        => /\ "success" \in DOMAIN req[r].response
           /\ Len(req[r].processed) = Len(req[r].audio)

\* a / b < c / d, for b > 0 and d > 0, a >= 0, c >= 0, without the products
RECURSIVE FracLess(_, _, _, _)
FracLess(a, b, c, d) ==
    LET qa == a \div b
        qc == c \div d
        ra == a % b
        rc == c % d
    IN  IF qa # qc THEN qa < qc
        ELSE IF rc = 0 THEN FALSE
        ELSE IF ra = 0 THEN TRUE
        ELSE FracLess(d, rc, b, ra)

\* the sum of the squares of the samples
Energy(buf) == SumTo([i \in 1..Len(buf) |-> buf[i] * buf[i]], Len(buf))

GainsDb == {Float(str) : str \in GainStrings}

\* the low band of request r at the low gain g, all else as in the request
LowBandAt(r, g) == BandStage(req[r].filters.low, req[r].audio, g).y

HasLowContent(r) == \E i \in 1..Len(req[r].low_band) : req[r].low_band[i] # 0

\* C4, as claimed: for an input with low-band content and g1 < g2, the
\* low-band energy of the returned (normalised) buffer, the energy of
\* low_band / divisor, is strictly larger at g2 than at g1.
C4_MonotoneAfterNormalisation ==
    \A r \in DOMAIN req :
        (Returned(r) /\ HasLowContent(r)) =>
            \A g2 \in GainsDb :
                Float(req[r].data.low_gain) < g2 =>
                    \A low2 \in {LowBandAt(r, g2)} :
                    \A div1 \in {req[r].processed[1][2]} :
                    \A div2 \in {Combine(low2, req[r].mid_band,
                                         req[r].high_band).processed[1][2]} :
                        FracLess(Energy(req[r].low_band), div1 * div1,
                                 Energy(low2), div2 * div2)

\* C4, amended: for an input with low-band content and g1 < g2, the energy
\* of the low band that enters the mix is strictly larger at g2 than at g1,
\* and so is the low-band energy of the returned buffer when the mixed peak
\* exceeds 1.0 at neither gain.
C4_MonotoneBeforeNormalisation ==
    \A r \in DOMAIN req :
        (Completed(r, "low") /\ HasLowContent(r)) =>
            \A g2 \in GainsDb :
                Float(req[r].data.low_gain) < g2 =>
                    \A low2 \in {LowBandAt(r, g2)} :
                    \A e1 \in {Energy(req[r].low_band)} :
                    \A e2 \in {Energy(low2)} :
                        /\ e1 < e2
                        /\ Returned(r) =>
                              \A div1 \in {req[r].processed[1][2]} :
                              \A div2 \in {Combine(low2, req[r].mid_band,
                                                   req[r].high_band).processed[1][2]} :
                                  (div1 = One /\ div2 = One) =>
                                      FracLess(e1, div1 * div1, e2, div2 * div2)

\* a returned buffer with low, mid and high content, below the top gain,
\* whose peak needed no scaling at this gain nor at the next
C4_Witness ==
    \E r \in DOMAIN req :
        /\ Returned(r)
        /\ HasLowContent(r)
        /\ \E i \in 1..Len(req[r].audio) : req[r].mid_band[i] # 0
        /\ Float(req[r].data.low_gain) = SliderMin
        /\ req[r].processed[1][2] = One
        /\ \A low2 \in {LowBandAt(r, 0)} :
              Combine(low2, req[r].mid_band, req[r].high_band).processed[1][2] = One

AllZero(buf) == \A i \in 1..Len(buf) : buf[i] = 0

\* C5, as claimed: an all-zero input of any length ends in an all-zero
\* output of the same length, never in an error.
C5_SilenceNeverFails ==
    \A r \in DOMAIN req :
        (req[r].pc = "done" /\ Completed(r, "load") /\ AllZero(req[r].audio)
            /\ req[r].sr = 44100) =>
            /\ "success" \in DOMAIN req[r].response
            /\ Len(req[r].processed) = Len(req[r].audio)
            /\ \A i \in 1..Len(req[r].processed) : req[r].processed[i][1] = 0

\* C5, amended: whenever apply_eq returns a buffer for an all-zero input, it
\* is all zero and of the input's length, whatever the gains; for an
\* all-zero input of at most WidestPad samples (the empty one included) it
\* returns none and the request ends in an error.
C5_SilenceWhenReturned ==
    \A r \in DOMAIN req :
        (Completed(r, "load") /\ AllZero(req[r].audio)) =>
            /\ Returned(r) =>
                  /\ Len(req[r].processed) = Len(req[r].audio)
                  /\ \A i \in 1..Len(req[r].processed) :
                        /\ req[r].processed[i][1] = 0
                        /\ req[r].processed[i][2] > 0
            /\ Len(req[r].audio) <= WidestPad =>
                  /\ ~Returned(r)
                  /\ req[r].pc = "done" => "error" \in DOMAIN req[r].response

\* silence longer than the padding came back, with a gain that is not 0 dB
C5_Witness ==
    \E r \in DOMAIN req :
        /\ req[r].pc = "done"
        /\ Returned(r)
        /\ Len(req[r].audio) > WidestPad
        /\ AllZero(req[r].audio)
        /\ req[r].data.low_gain = "12"

StepOrder == <<"load", "design", "low", "mid", "high", "combine", "write">>

\* C7. Abort on first failure: once a step of a request has raised, no later
\* step runs, apply_eq hands no buffer back, the request writes no output
\* file, and its response carries an error and no success flag.
C7_AbortOnFirstFailure ==
    \A r \in DOMAIN req :
        /\ req[r].ran = SubSeq(StepOrder, 1, Len(req[r].ran))
        /\ req[r].exc.type # "" =>
              /\ req[r].pc \in {"except", "done"}
              /\ req[r].processed = <<>>
              /\ ~Ran(r, "write")
              /\ \A n \in DOMAIN temp_dir : temp_dir[n].by # r
              /\ req[r].pc = "done" =>
                    /\ "error" \in DOMAIN req[r].response
                    /\ "success" \notin DOMAIN req[r].response

\* the band-pass filtering failed after the low band had been computed
C7_Witness ==
    \E r \in DOMAIN req :
        /\ req[r].pc = "done"
        /\ req[r].exc.at = "filtfilt_mid"
        /\ HasLowContent(r)
        /\ req[r].ran = <<"load", "design", "low", "mid">>


\* ============================================== the claim under ServerSpec
\* two buffers of fractions hold the same values
SameSamples(p, q) ==
    /\ Len(p) = Len(q)
    /\ \A i \in 1..Len(p) : p[i][1] * q[i][2] = q[i][1] * p[i][2]

\* C8, as claimed: whatever the interleaving, the result of a /process
\* request that answered success, the file its response names, holds what
\* apply_eq returns for the request's own upload and gains (what it would
\* hold had the request run alone), and the upload is as it was.
C8_RequestsIsolated ==
    \A r \in DOMAIN req :
        (req[r].pc = "done" /\ "success" \in DOMAIN req[r].response) =>
            \A out \in {temp_dir[req[r].response.processed_filename]} :
            \A in \in {temp_dir[req[r].data.filename]} :
                /\ in.kind = "audio"
                /\ in.samples = req[r].audio
                /\ SameSamples(out.samples,
                      apply_eq(in.samples, in.sr, Float(req[r].data.low_gain),
                               Float(req[r].data.mid_gain),
                               Float(req[r].data.high_gain)).processed)


\* ============================================== the claim under ClientSpec
\* an answered upload (process) whose continuation has run and enabled the
\* button with this file name
UploadedAs(name) ==
    \E i \in DOMAIN fetches :
        /\ fetches[i].url = "/upload"
        /\ fetches[i].state = "done"
        /\ "success" \in DOMAIN fetches[i].result
        /\ fetches[i].result.filename = name

ProcessedAs(name) ==
    \E i \in DOMAIN fetches :
        /\ fetches[i].url = "/process"
        /\ fetches[i].state = "done"
        /\ "success" \in DOMAIN fetches[i].result
        /\ fetches[i].result.processed_filename = name

ButtonsFollowResponses ==
    /\ ~processBtn.disabled => UploadedAs(currentFilename)
    /\ currentFilename # Null => UploadedAs(currentFilename)
    /\ ~downloadBtn.disabled => ProcessedAs(processedFilename)
    /\ processedFilename # Null => ProcessedAs(processedFilename)

\* the continuation of a failed request runs in this step
FailureHandled ==
    \E i \in DOMAIN fetches :
        /\ fetches[i].state \in {"answered", "rejected"}
        /\ ~Succeeded(fetches[i])
        /\ fetches'[i].state = "done"

\* C10. In every reachable state of the page, Apply EQ is enabled only if
\* currentFilename is the filename of a successful /upload response, and
\* Download only if processedFilename is the processed_filename of a
\* successful /process response; and the step that handles a failed upload
\* or a failed process changes neither button nor either file name.
C10_ButtonsFollowResponses ==
    /\ []ButtonsFollowResponses
    /\ [][FailureHandled =>
            UNCHANGED <<currentFilename, processedFilename, processBtn, downloadBtn>>]_vars

\* both buttons enabled, and a failed upload and a failed process handled
\* since
C10_Witness ==
    /\ ~processBtn.disabled
    /\ ~downloadBtn.disabled
    /\ \E i \in DOMAIN fetches :
          /\ fetches[i].state = "done"
          /\ "error" \in DOMAIN fetches[i].result
          /\ \E j \in 1..(i - 1) : fetches[j].url = "/process" /\ Succeeded([fetches[j] EXCEPT !.state = "answered"])

=============================================================================
